---- MODULE Spec2Model ----
(***************************************************************************)
(* Witness testimony / deposition preparation demo.                        *)
(*                                                                         *)
(* The module models                                                       *)
(*   - the usage ledger kept in localStorage (lib/storage/usage-storage),  *)
(*   - the two wizard components (TestimonyPrepTool, DepositionPrepTool):  *)
(*     their React state, their handlers and the requests they keep in     *)
(*     flight,                                                             *)
(*   - the persisted session records the handlers read and write.          *)
(*                                                                         *)
(* Time is a counter of hours and money a counter of whole units.          *)
(***************************************************************************)
EXTENDS Integers, Sequences, FiniteSets, TLC

(***************************************************************************)
(* Bounds of the model.                                                    *)
(***************************************************************************)
MaxTime == 2            \* the clock stops here
MaxLedgerPrice == 2     \* recorded cost is capped here
MaxLedgerDocs == 2      \* LedgerSpec: recorded document count is capped here
MaxBytes == 1           \* LedgerSpec: values passed to updateTotalStorageUsed
MaxCost == 2            \* largest cost delta of one request
MaxSessions == 1        \* sessions created in one run
MaxBatch == 2           \* files dropped at once
MaxUploads == 2         \* invocations of handleFileUpload in flight
MaxGens == 2            \* question lists generated in one run
MaxQ == 2               \* questions in a reply of the remote model
MaxDetails == 1         \* dates the fallback analysis finds
MaxTimers == 1          \* pending timers of earlier messages that are kept
MaxName == 1            \* characters of a name typed into the setup form
MaxPractice == 2        \* questions passed with nextQuestion in one practice
MaxFileWords == 2       \* words of a file name given to detectDocumentType
MaxContentWords == 1    \* words of a content given to detectDocumentType
MaxContent == 6         \* tokens of a content given to parseJSONResponse
MaxOutlineQ == 3        \* questions of a session given to autoOrganizeOutline

(***************************************************************************)
(* Configuration (lib/demo-limits/config).  The three limits are read from *)
(* the environment; the values are those of a deployment configured as in  *)
(* the spec's scenarios (a window of two hours, a price limit of one unit, *)
(* one document per session).                                              *)
(***************************************************************************)
sessionHours == 2
sessionPriceLimit == 1
maxDocumentsPerSession == 1

VARIABLES
    now,        \* the wall clock (new Date())
    stats,      \* localStorage[STATS_KEY]: the usage ledger
    readFrom,   \* LedgerSpec: the ledger the last call of getSessionStats found
    returned,   \* LedgerSpec: what the last call of getSessionStats returned
    request,    \* RouteSpec: the last request to a route and who sent it;
                \* ClassifySpec: the arguments of detectDocumentType
    response,   \* RouteSpec: the reply to it; ClassifySpec: the result
    tool,       \* the tool the page shows: "testimony" or "deposition"
    store,      \* localStorage: the persisted session records, by session id
    savedId,    \* localStorage['wtp_current_deposition_session'] (0: absent)
    nextId,     \* the next fresh session id (uuid)
    nextGen,    \* the next fresh id of a generated question list
    session,    \* useState: the session in memory (id 0: null)
    currentStep,
    limitReached,           \* "none" (null), "priceLimit" or "documentLimit"
    error,                  \* an error message is shown
    timers,                 \* pending setTimeout callbacks of showError
                            \* (last: that of the latest call; older: those
                            \* of the calls before it)
    isUploadingDocument,
    isGeneratingQuestions,
    isSubmittingResponse,
    priceUsed,
    currentQuestionIndex,
    witnessResponse,        \* the text of the response box
    showFeedback,
    uploads,    \* the invocations of handleFileUpload that await a file
    genTask,    \* the invocation of the question generator that awaits its reply
    subTask     \* the invocation of submitResponse that awaits its reply

(***************************************************************************)
(* Usage ledger: lib/storage/usage-storage.ts                              *)
(***************************************************************************)
\* localStorage holds no ledger
NoStats ==
    [exists |-> FALSE, documentsUploaded |-> 0, totalStorageUsed |-> 0,
     sessionPrice |-> 0, sessionStartAt |-> 0, sessionResetAt |-> 0]

getSessionResetTime(t, hours) == t + hours

\* defaultStats and resetStats are the same record built at time t
FreshStats(t) ==
    [exists |-> TRUE, documentsUploaded |-> 0, totalStorageUsed |-> 0,
     sessionPrice |-> 0, sessionStartAt |-> t,
     sessionResetAt |-> getSessionResetTime(t, sessionHours)]

\* mutant: the rollover test is strict, so a read at the very reset time keeps
\* the old window
getSessionStats_strict(st, t) ==
    IF ~st.exists
    THEN [stored |-> FreshStats(t), ret |-> FreshStats(t)]
    ELSE IF t > st.sessionResetAt
         THEN [stored |-> FreshStats(t), ret |-> FreshStats(t)]
         ELSE [stored |-> st, ret |-> st]

\* getSessionStats at time t on the stored ledger st: the ledger it leaves in
\* localStorage and the record it returns
getSessionStats(st, t) ==
    IF ~st.exists
    THEN [stored |-> FreshStats(t), ret |-> FreshStats(t)]
    ELSE IF t >= st.sessionResetAt
         THEN [stored |-> FreshStats(t), ret |-> FreshStats(t)]
         ELSE [stored |-> st, ret |-> st]

\* { ...current, ...updates }
Merge(current, updates) ==
    [f \in DOMAIN current |->
        IF f \in DOMAIN updates THEN updates[f] ELSE current[f]]

\* mutant: the update is merged into a fresh record instead of the stored one
updateSessionStats_fresh(st, t, updates) ==
    Merge(FreshStats(t), updates)

\* updateSessionStats: the ledger it leaves in localStorage
updateSessionStats(st, t, updates) ==
    Merge(getSessionStats(st, t).ret, updates)

incrementDocumentsUploaded(st, t) ==
    LET read == getSessionStats(st, t)
    IN updateSessionStats(read.stored, t,
            [documentsUploaded |-> read.ret.documentsUploaded + 1])

incrementSessionPrice(st, t, price) ==
    LET read == getSessionStats(st, t)
    IN updateSessionStats(read.stored, t,
            [sessionPrice |-> read.ret.sessionPrice + price])

updateTotalStorageUsed(st, t, bytes) ==
    updateSessionStats(st, t, [totalStorageUsed |-> bytes])

(***************************************************************************)
(* Session store: lib/storage/session-storage and deposition-storage.      *)
(* A session record holds its id, the status of each of its documents in   *)
(* upload order, its question list (the id of the reply that produced it   *)
(* and its length), whether its analysis has gaps or contradictions, and   *)
(* its outline (the question list it was built from).                      *)
(***************************************************************************)
NoQuestions == [gen |-> 0, n |-> 0]

\* null; witnessName is deponentName in a deposition session
NullSession ==
    [id |-> 0, witnessName |-> <<>>, caseName |-> <<>>, documents |-> <<>>,
     questions |-> NoQuestions, hasAnalysis |-> FALSE,
     outline |-> NoQuestions]

NewSession(id, witnessName, caseName) ==
    [NullSession EXCEPT !.id = id, !.witnessName = witnessName,
                        !.caseName = caseName]

EmptyStore == [i \in {} |-> NullSession]

getSession(st, id) ==
    IF id \in DOMAIN st THEN st[id] ELSE NullSession

\* the store with record rec written under its id
Put(st, rec) ==
    [i \in DOMAIN st \cup {rec.id} |-> IF i = rec.id THEN rec ELSE st[i]]

\* create: a new record under a fresh id
createSession(st, id, witnessName, caseName) ==
    [store |-> Put(st, NewSession(id, witnessName, caseName)),
     ret |-> NewSession(id, witnessName, caseName)]

\* update: the record of an unknown id is null and nothing is written
updateSession(st, id, partial) ==
    IF id \in DOMAIN st
    THEN [store |-> Put(st, Merge(st[id], partial)),
          ret |-> Merge(st[id], partial)]
    ELSE [store |-> st, ret |-> NullSession]

addDocument(st, id, status) ==
    updateSession(st, id,
        [documents |-> Append(getSession(st, id).documents, status)])

setQuestions(st, id, questions) ==
    updateSession(st, id, [questions |-> questions])

setAnalysisResults(st, id, hasAnalysis) ==
    updateSession(st, id, [hasAnalysis |-> hasAnalysis])

deleteSession(st, id) ==
    [i \in DOMAIN st \ {id} |-> st[i]]

(***************************************************************************)
(* Helpers of the wizards.                                                 *)
(***************************************************************************)
Min(a, b) == IF a < b THEN a ELSE b

\* the texts of the setup form: sequences of characters, " " is white space
Names == UNION {[1..k -> {" ", "a"}] : k \in 0..MaxName}

RECURSIVE TrimStart(_)
TrimStart(str) ==
    IF str # <<>> /\ Head(str) = " " THEN TrimStart(Tail(str)) ELSE str

RECURSIVE TrimEnd(_)
TrimEnd(str) ==
    IF str # <<>> /\ str[Len(str)] = " "
    THEN TrimEnd(SubSeq(str, 1, Len(str) - 1))
    ELSE str

\* String.prototype.trim
Trim(str) == TrimEnd(TrimStart(str))

\* session.documents.some(d => d.status === 'ready')
HasReady(sess) ==
    \E i \in 1..Len(sess.documents) : sess.documents[i] = "ready"

RECURSIVE SkipBig(_)
\* the files left when the upload loop has skipped the leading files that
\* exceed maxFileSize
SkipBig(files) ==
    IF files # <<>> /\ Head(files) = "big" THEN SkipBig(Tail(files)) ELSE files

\* the sequence s without its i-th element
Without(s, i) == SubSeq(s, 1, i - 1) \o SubSeq(s, i + 1, Len(s))

\* mutant: the status is given to every document of the session
MarkDocument_all(documents, idx, status) ==
    [i \in 1..Len(documents) |-> status]

\* documents.map(d => d.id === docId ? { ...d, status } : d)
MarkDocument(documents, idx, status) ==
    [i \in 1..Len(documents) |-> IF i = idx THEN status ELSE documents[i]]

\* no timer is pending
NoTimers == [last |-> FALSE, older |-> 0]

\* no invocation is waiting; a waiting one keeps the id of its closure's
\* session and the body of its request: the names and the document count of
\* that session and (submitResponse) the response
NoTask ==
    [active |-> FALSE, sid |-> 0, witnessName |-> <<>>, caseName |-> <<>>,
     nDocs |-> 0, witnessResponse |-> <<>>]

\* the invocation that waits for the reply to a request made of sess and
\* the text of the response box
Waiting(sess, text) ==
    [active |-> TRUE, sid |-> sess.id, witnessName |-> sess.witnessName,
     caseName |-> sess.caseName, nDocs |-> Len(sess.documents),
     witnessResponse |-> text]

vars ==
    <<now, stats, readFrom, returned, request, response, tool, store, savedId, nextId,
      nextGen, session, currentStep, limitReached, error, timers,
      isUploadingDocument, isGeneratingQuestions, isSubmittingResponse,
      priceUsed, currentQuestionIndex, witnessResponse, showFeedback, uploads,
      genTask, subTask>>

ledgerVars == <<stats, readFrom, returned>>

routeVars == <<request, response>>

\* no request was made
NoRequest ==
    [route |-> "none", by |-> "none", sid |-> 0, witnessName |-> <<>>,
     caseName |-> <<>>, nDocs |-> 0, hasQuestion |-> FALSE,
     witnessResponse |-> <<>>, kind |-> "none"]

NoResponse ==
    [status |-> 0, ok |-> FALSE, limitReached |-> FALSE, n |-> 0,
     fallback |-> FALSE, hasAnalysis |-> FALSE, cost |-> 0,
     usedFallback |-> FALSE, aiResponse |-> FALSE, calls |-> 0]

storeVars == <<store, savedId, nextId>>

\* the React state of the wizard other than the session and the step
flagVars ==
    <<limitReached, error, timers, isUploadingDocument, isGeneratingQuestions,
      isSubmittingResponse, priceUsed>>

practiceVars == <<currentQuestionIndex, witnessResponse, showFeedback>>

taskVars == <<uploads, genTask, subTask>>

wizardVars ==
    <<tool, store, savedId, nextId, nextGen, session, currentStep,
      limitReached, error, timers, isUploadingDocument, isGeneratingQuestions,
      isSubmittingResponse, priceUsed, currentQuestionIndex, witnessResponse,
      showFeedback, uploads, genTask, subTask>>

\* the state of a freshly constructed component
FreshComponent ==
    /\ session = NullSession
    /\ currentStep = "setup"
    /\ limitReached = "none"
    /\ error = FALSE
    /\ timers = NoTimers
    /\ isUploadingDocument = FALSE
    /\ isGeneratingQuestions = FALSE
    /\ isSubmittingResponse = FALSE
    /\ currentQuestionIndex = 0
    /\ witnessResponse = <<>>
    /\ showFeedback = FALSE
    /\ uploads = <<>>
    /\ genTask = NoTask
    /\ subTask = NoTask

\* the timers pending after k more calls of showError; all timers have the
\* same delay, so they fire in the order of the calls.  Beyond MaxTimers
\* pending timers of earlier calls, a timer is not kept
TimersAfter(k) ==
    IF k = 0 THEN timers
    ELSE [last |-> TRUE,
          older |-> Min(timers.older + (IF timers.last THEN 1 ELSE 0)
                            + (k - 1), MaxTimers)]

\* a browser with an empty localStorage has opened one of the tools and the
\* component's mount effect has read the ledger
Init ==
    /\ now = 0
    /\ stats = FreshStats(0)
    /\ readFrom = NoStats
    /\ returned = NoStats
    /\ request = NoRequest
    /\ response = NoResponse
    /\ tool \in {"testimony", "deposition"}
    /\ store = EmptyStore
    /\ savedId = 0
    /\ nextId = 1
    /\ nextGen = 1
    /\ priceUsed = 0
    /\ FreshComponent

\* the clock advances by an hour
Tick ==
    /\ now < MaxTime
    /\ now' = now + 1
    /\ UNCHANGED <<ledgerVars, routeVars, wizardVars>>

(***************************************************************************)
(* LedgerSpec: the ledger's operations called in any order.                *)
(***************************************************************************)
LedgerInit ==
    /\ now = 0
    /\ stats = FreshStats(0)
    /\ readFrom = NoStats
    /\ returned = NoStats
    /\ request = NoRequest
    /\ response = NoResponse
    /\ tool = "testimony"
    /\ store = EmptyStore
    /\ savedId = 0
    /\ nextId = 1
    /\ nextGen = 1
    /\ priceUsed = 0
    /\ FreshComponent

LGetSessionStats ==
    /\ stats' = getSessionStats(stats, now).stored
    /\ returned' = getSessionStats(stats, now).ret
    /\ readFrom' = stats
    /\ UNCHANGED <<now, routeVars, wizardVars>>

LIncrementDocumentsUploaded ==
    /\ stats.documentsUploaded < MaxLedgerDocs
    /\ stats' = incrementDocumentsUploaded(stats, now)
    /\ UNCHANGED <<now, routeVars, readFrom, returned, wizardVars>>

LIncrementSessionPrice ==
    \E price \in 1..MaxCost :
        /\ stats.sessionPrice + price <= MaxLedgerPrice
        /\ stats' = incrementSessionPrice(stats, now, price)
        /\ UNCHANGED <<now, routeVars, readFrom, returned, wizardVars>>

LUpdateTotalStorageUsed ==
    \E bytes \in 0..MaxBytes :
        /\ stats' = updateTotalStorageUsed(stats, now, bytes)
        /\ UNCHANGED <<now, routeVars, readFrom, returned, wizardVars>>

\* a direct call of updateSessionStats with one field of the record
LedgerUpdates ==
    [sessionPrice : 0..MaxLedgerPrice]
        \cup [documentsUploaded : 0..MaxLedgerDocs]
        \cup [sessionResetAt : 0..(MaxTime + sessionHours)]

LUpdateSessionStats ==
    \E updates \in LedgerUpdates :
        /\ stats' = updateSessionStats(stats, now, updates)
        /\ UNCHANGED <<now, routeVars, readFrom, returned, wizardVars>>

LedgerNext ==
    \/ Tick
    \/ LGetSessionStats
    \/ LUpdateSessionStats
    \/ LIncrementDocumentsUploaded
    \/ LIncrementSessionPrice
    \/ LUpdateTotalStorageUsed

LedgerSpec == LedgerInit /\ [][LedgerNext]_vars

(***************************************************************************)
(* Server routes, as the replies their callers see.  A reply holds the     *)
(* HTTP status, the number n of questions, whether the questions are those *)
(* of the local fallback, the cost, and the number of calls of the remote  *)
(* completion endpoint made for it.                                        *)
(***************************************************************************)
\* generateFallbackQuestions returns its twenty static questions
FallbackQuestionCount == 20

\* chatCompletion throws when the request fails and when the status of the
\* reply is not 2xx
chatCompletionThrows(llm) == llm.kind \in {"throw", "non2xx"}

\* the reply to a request that fails validation
BadRequest ==
    [status |-> 400, ok |-> FALSE, limitReached |-> FALSE, n |-> 0,
     fallback |-> FALSE, hasAnalysis |-> FALSE, cost |-> 0,
     usedFallback |-> FALSE, aiResponse |-> FALSE, calls |-> 0]

\* the reply of the outer catch
ServerError == [BadRequest EXCEPT !.status = 500, !.calls = 1]

\* what the remote model can answer to a testimony request: the call throws,
\* the status is not 2xx, the content is empty, no array can be parsed from
\* the content, or an array of k elements is parsed (bad: one of them is
\* null); cost is the price of the characters of the prompts and the content
TestimonyLLM ==
    [kind : {"throw", "non2xx", "empty", "text"}, k : {0}, bad : {FALSE},
     cost : 1..MaxCost]
        \cup [kind : {"array"}, k : 0..MaxQ, bad : {FALSE}, cost : 1..MaxCost]
        \cup [kind : {"array"}, k : 1..MaxQ, bad : {TRUE}, cost : 1..MaxCost]

\* mutant: the cost is computed before the remote call
TestimonyRoute_costFirst(witnessName, caseName, nDocs, llm) ==
    IF witnessName = <<>> \/ caseName = <<>> \/ nDocs = 0
    THEN BadRequest
    ELSE LET thrown == chatCompletionThrows(llm)
             questions == IF ~thrown /\ llm.kind = "array" /\ ~llm.bad
                          THEN Min(llm.k, 20) ELSE 0
         IN [status |-> 200, ok |-> TRUE, limitReached |-> FALSE,
             n |-> IF questions = 0 THEN FallbackQuestionCount ELSE questions,
             fallback |-> questions = 0,
             hasAnalysis |-> FALSE,
             cost |-> llm.cost,
             usedFallback |-> thrown \/ questions = 0,
             aiResponse |-> FALSE, calls |-> 1]

\* POST /api/testimony/generate-questions.  A null element of the array makes
\* the mapping throw into the catch of the remote call, which leaves the
\* question list empty
TestimonyRoute(witnessName, caseName, nDocs, llm) ==
    IF witnessName = <<>> \/ caseName = <<>> \/ nDocs = 0
    THEN BadRequest
    ELSE LET thrown == chatCompletionThrows(llm)
             questions == IF ~thrown /\ llm.kind = "array" /\ ~llm.bad
                          THEN Min(llm.k, 20) ELSE 0
         IN [status |-> 200, ok |-> TRUE, limitReached |-> FALSE,
             n |-> IF questions = 0 THEN FallbackQuestionCount ELSE questions,
             fallback |-> questions = 0,
             hasAnalysis |-> FALSE,
             cost |-> IF thrown THEN 0 ELSE llm.cost,
             usedFallback |-> thrown \/ questions = 0,
             aiResponse |-> FALSE, calls |-> 1]

\* what the remote model can answer to a deposition request: the call
\* throws, the status is not 2xx, the content is empty, it is not JSON, it
\* is the JSON null, it is another JSON scalar, it is a JSON array, or it is
\* a JSON object with k questions and (analysis) gaps or contradictions;
\* details is the number of dates the fallback finds in the documents
DepositionLLM ==
    [kind : {"throw", "non2xx", "empty", "text", "null"}, k : {0},
     analysis : {FALSE}, details : 0..MaxDetails, cost : 1..MaxCost]
        \cup [kind : {"scalar", "array"}, k : {0}, analysis : {FALSE},
              details : {0}, cost : 1..MaxCost]
        \cup [kind : {"object"}, k : 0..MaxQ, analysis : BOOLEAN,
              details : {0}, cost : 1..MaxCost]

\* generateFallbackAnalysis: a question for each of the first three dates and
\* two general questions; a gap when a date was found
generateFallbackAnalysis(details) ==
    [n |-> Min(details, 3) + 2, hasAnalysis |-> details > 0]

\* POST /api/deposition/generate-questions.  Setting a field of a scalar
\* throws into the outer catch; an array has no questions field
DepositionRoute(deponentName, caseName, nDocs, llm) ==
    IF deponentName = <<>> \/ caseName = <<>> \/ nDocs = 0
    THEN BadRequest
    ELSE IF ~chatCompletionThrows(llm) /\ llm.kind = "scalar"
    THEN ServerError
    ELSE IF ~chatCompletionThrows(llm) /\ llm.kind \in {"object", "array"}
    THEN [status |-> 200, ok |-> TRUE, limitReached |-> FALSE, n |-> llm.k,
          fallback |-> FALSE, hasAnalysis |-> llm.analysis,
          cost |-> llm.cost, usedFallback |-> FALSE, aiResponse |-> FALSE,
          calls |-> 1]
    ELSE [status |-> 200, ok |-> TRUE, limitReached |-> FALSE,
          n |-> generateFallbackAnalysis(llm.details).n,
          fallback |-> TRUE,
          hasAnalysis |-> generateFallbackAnalysis(llm.details).hasAnalysis,
          cost |-> IF chatCompletionThrows(llm) THEN 0 ELSE llm.cost,
          usedFallback |-> TRUE, aiResponse |-> FALSE, calls |-> 1]

\* what the remote model can answer to a practice request; aiResponse: the
\* content parses to a value that is not null, false, 0 or ""
PracticeLLM ==
    [kind : {"throw", "non2xx", "content"}, aiResponse : BOOLEAN,
     cost : 1..MaxCost]

\* POST /api/testimony/practice: when the remote call throws, the reply
\* carries the default aiResponse and no cost
PracticeRoute(hasQuestion, text, llm) ==
    IF ~hasQuestion \/ text = <<>>
    THEN BadRequest
    ELSE [status |-> 200, ok |-> TRUE, limitReached |-> FALSE, n |-> 0,
          fallback |-> FALSE, hasAnalysis |-> FALSE,
          cost |-> IF chatCompletionThrows(llm) THEN 0 ELSE llm.cost,
          usedFallback |-> FALSE,
          aiResponse |-> chatCompletionThrows(llm) \/ llm.aiResponse,
          calls |-> 1]

\* the replies the routes can give to the request of a waiting invocation
TestimonyReplies(task) ==
    {TestimonyRoute(task.witnessName, task.caseName, task.nDocs, llm) :
        llm \in TestimonyLLM}

DepositionReplies(task) ==
    {DepositionRoute(task.witnessName, task.caseName, task.nDocs, llm) :
        llm \in DepositionLLM}

PracticeReplies(task) ==
    {PracticeRoute(TRUE, task.witnessResponse, llm) : llm \in PracticeLLM}

\* what awaiting fetch and response.json() gives a handler: one of the
\* replies, or an exception (thrown) when the request fails
FetchOutcomes(replies) ==
    {[thrown |-> FALSE, data |-> reply] : reply \in replies}
        \cup {[thrown |-> TRUE, data |-> ServerError]}

(***************************************************************************)
(* The guards at the head of the handlers that send the requests.          *)
(***************************************************************************)
\* mutant: only the session is tested
handleGenerateQuestionsGuard_sessionOnly(sess) == sess.id # 0

\* if (!session || session.documents.length === 0) return;
handleGenerateQuestionsGuard(sess) ==
    sess.id # 0 /\ Len(sess.documents) # 0

\* if (!session || !witnessResponse.trim()) return;
\* if (!currentQuestion) return;
submitResponseGuard(sess, text, index) ==
    /\ sess.id # 0
    /\ Trim(text) # <<>>
    /\ index < sess.questions.n

(***************************************************************************)
(* RouteSpec: requests to the three routes, sent by the handlers of the    *)
(* wizards for any session they can hold, or by any other client with any  *)
(* body.  The routes keep no state, so one request is followed.            *)
(***************************************************************************)
RouteInit ==
    /\ now = 0
    /\ stats = FreshStats(0)
    /\ readFrom = NoStats
    /\ returned = NoStats
    /\ request = NoRequest
    /\ response = NoResponse
    /\ tool = "testimony"
    /\ store = EmptyStore
    /\ savedId = 0
    /\ nextId = 1
    /\ nextGen = 1
    /\ priceUsed = 0
    /\ FreshComponent

\* the sessions a wizard can hold: none, or one with both names and any
\* documents and questions
RouteSessions ==
    {NullSession} \cup
    {[NewSession(1, <<"a">>, <<"a">>) EXCEPT !.documents = docs,
                                             !.questions = qs] :
        docs \in UNION {[1..k -> {"processing", "ready", "error"}] :
                            k \in 0..MaxBatch},
        qs \in {NoQuestions, [gen |-> 1, n |-> 1]}}

\* the body of the request a generator sends for sess
GenerateBody(route, sess, llm) ==
    [NoRequest EXCEPT !.route = route, !.by = "wizard", !.sid = sess.id,
                      !.witnessName = sess.witnessName,
                      !.caseName = sess.caseName,
                      !.nDocs = Len(sess.documents), !.kind = llm.kind]

\* TestimonyPrepTool.handleGenerateQuestions is called with session sess
ClientTestimonyGenerate ==
    \E sess \in RouteSessions, llm \in TestimonyLLM :
        /\ request = NoRequest
        /\ IF handleGenerateQuestionsGuard(sess)
           THEN /\ request' = GenerateBody("testimony", sess, llm)
                /\ response' = TestimonyRoute(sess.witnessName, sess.caseName,
                                              Len(sess.documents), llm)
           ELSE /\ request' = NoRequest
                /\ response' = NoResponse
        /\ UNCHANGED <<now, ledgerVars, wizardVars>>

\* DepositionPrepTool.generateQuestions is called with session sess
ClientDepositionGenerate ==
    \E sess \in RouteSessions, llm \in DepositionLLM :
        /\ request = NoRequest
        /\ IF handleGenerateQuestionsGuard(sess)
           THEN /\ request' = GenerateBody("deposition", sess, llm)
                /\ response' = DepositionRoute(sess.witnessName, sess.caseName,
                                               Len(sess.documents), llm)
           ELSE /\ request' = NoRequest
                /\ response' = NoResponse
        /\ UNCHANGED <<now, ledgerVars, wizardVars>>

\* TestimonyPrepTool.submitResponse is called with session sess and the text
\* of the response box, on the first question
ClientPractice ==
    \E sess \in RouteSessions, text \in Names, llm \in PracticeLLM :
        /\ request = NoRequest
        /\ IF submitResponseGuard(sess, text, 0)
           THEN /\ request' =
                    [NoRequest EXCEPT !.route = "practice", !.by = "wizard",
                                      !.sid = sess.id,
                                      !.witnessName = sess.witnessName,
                                      !.caseName = sess.caseName,
                                      !.nDocs = Len(sess.documents),
                                      !.hasQuestion = TRUE,
                                      !.witnessResponse = text,
                                      !.kind = llm.kind]
                /\ response' = PracticeRoute(TRUE, text, llm)
           ELSE /\ request' = NoRequest
                /\ response' = NoResponse
        /\ UNCHANGED <<now, ledgerVars, wizardVars>>

\* any client posts any body to /api/testimony/generate-questions
TestimonyGenerateQuestionsPOST ==
    \E witnessName \in Names, caseName \in Names, nDocs \in 0..MaxBatch,
       llm \in TestimonyLLM :
        /\ request = NoRequest
        /\ request' =
            [NoRequest EXCEPT !.route = "testimony", !.by = "any",
                              !.witnessName = witnessName,
                              !.caseName = caseName, !.nDocs = nDocs,
                              !.kind = llm.kind]
        /\ response' = TestimonyRoute(witnessName, caseName, nDocs, llm)
        /\ UNCHANGED <<now, ledgerVars, wizardVars>>

\* any client posts any body to /api/deposition/generate-questions
DepositionGenerateQuestionsPOST ==
    \E deponentName \in Names, caseName \in Names, nDocs \in 0..MaxBatch,
       llm \in DepositionLLM :
        /\ request = NoRequest
        /\ request' =
            [NoRequest EXCEPT !.route = "deposition", !.by = "any",
                              !.witnessName = deponentName,
                              !.caseName = caseName, !.nDocs = nDocs,
                              !.kind = llm.kind]
        /\ response' = DepositionRoute(deponentName, caseName, nDocs, llm)
        /\ UNCHANGED <<now, ledgerVars, wizardVars>>

\* any client posts any body to /api/testimony/practice
PracticePOST ==
    \E hasQuestion \in BOOLEAN, text \in Names, llm \in PracticeLLM :
        /\ request = NoRequest
        /\ request' =
            [NoRequest EXCEPT !.route = "practice", !.by = "any",
                              !.hasQuestion = hasQuestion,
                              !.witnessResponse = text, !.kind = llm.kind]
        /\ response' = PracticeRoute(hasQuestion, text, llm)
        /\ UNCHANGED <<now, ledgerVars, wizardVars>>

RouteNext ==
    \/ ClientTestimonyGenerate
    \/ ClientDepositionGenerate
    \/ ClientPractice
    \/ TestimonyGenerateQuestionsPOST
    \/ DepositionGenerateQuestionsPOST
    \/ PracticePOST

RouteSpec == RouteInit /\ [][RouteNext]_vars

(***************************************************************************)
(* detectDocumentType (DepositionPrepTool).  A text is a sequence of words *)
(* and includes a keyword when one of its words is the keyword.            *)
(***************************************************************************)
FileWords ==
    {"Transcript", "DEPOSITION", "testimony", "Statement", "exhibit", "EX_3",
     "ex1", "complaint", "Motion", "brief", "filing", "sworn", "notes"}

ContentWords == {"Q:", "a:", "SWORN", "under oath", "Exhibit", "hello"}

\* toLowerCase of a word
LowerWord(word) ==
    CASE word = "Transcript" -> "transcript"
      [] word = "DEPOSITION" -> "deposition"
      [] word = "Statement" -> "statement"
      [] word = "EX_3" -> "ex_3"
      [] word = "Motion" -> "motion"
      [] word = "Q:" -> "q:"
      [] word = "SWORN" -> "sworn"
      [] word = "Exhibit" -> "exhibit"
      [] OTHER -> word

\* String.prototype.toLowerCase
toLowerCase(text) == [i \in 1..Len(text) |-> LowerWord(text[i])]

\* String.prototype.includes
includes(text, keyword) == \E i \in 1..Len(text) : text[i] = keyword

\* /ex[-_]?\d+/i.test(text)
TestExNumber(text) ==
    \E i \in 1..Len(text) : text[i] \in {"ex1", "ex-2", "ex_3", "EX_3"}

\* the condition of the if statement that returns type
DocumentTypeRule(type, lowerName, lowerContent) ==
    CASE type = "transcript" ->
            \/ includes(lowerName, "transcript")
            \/ includes(lowerName, "deposition")
            \/ includes(lowerContent, "q:")
            \/ includes(lowerContent, "a:")
      [] type = "prior_testimony" ->
            \/ includes(lowerName, "testimony")
            \/ includes(lowerName, "statement")
            \/ includes(lowerContent, "sworn")
            \/ includes(lowerContent, "under oath")
      [] type = "exhibit" ->
            \/ includes(lowerName, "exhibit")
            \/ TestExNumber(lowerName)
      [] type = "case_file" ->
            \/ includes(lowerName, "complaint")
            \/ includes(lowerName, "motion")
            \/ includes(lowerName, "brief")
            \/ includes(lowerName, "filing")
      [] OTHER -> FALSE

\* an argument that was not passed
Undefined == [present |-> FALSE, text |-> <<>>]

\* mutant: the exhibit rule is tried first
detectDocumentType_exhibitFirst(filename, content) ==
    LET lowerName == toLowerCase(filename)
        lowerContent ==
            toLowerCase(IF content.present THEN content.text ELSE <<>>)
    IN  IF DocumentTypeRule("exhibit", lowerName, lowerContent)
        THEN "exhibit"
        ELSE IF DocumentTypeRule("transcript", lowerName, lowerContent)
        THEN "transcript"
        ELSE IF DocumentTypeRule("prior_testimony", lowerName, lowerContent)
        THEN "prior_testimony"
        ELSE IF DocumentTypeRule("case_file", lowerName, lowerContent)
        THEN "case_file"
        ELSE "other"

detectDocumentType(filename, content) ==
    LET lowerName == toLowerCase(filename)
        lowerContent ==
            toLowerCase(IF content.present THEN content.text ELSE <<>>)
    IN  IF DocumentTypeRule("transcript", lowerName, lowerContent)
        THEN "transcript"
        ELSE IF DocumentTypeRule("prior_testimony", lowerName, lowerContent)
        THEN "prior_testimony"
        ELSE IF DocumentTypeRule("exhibit", lowerName, lowerContent)
        THEN "exhibit"
        ELSE IF DocumentTypeRule("case_file", lowerName, lowerContent)
        THEN "case_file"
        ELSE "other"

(***************************************************************************)
(* ClassifySpec: detectDocumentType is called once, with any file name and *)
(* any content.                                                            *)
(***************************************************************************)
ClassifyInit == RouteInit

FileNames == UNION {[1..k -> FileWords] : k \in 0..MaxFileWords}

Contents ==
    {Undefined} \cup
    {[present |-> TRUE, text |-> text] :
        text \in UNION {[1..k -> ContentWords] : k \in 0..MaxContentWords}}

Classify ==
    \E filename \in FileNames, content \in Contents :
        /\ request = NoRequest
        /\ request' = [route |-> "detectDocumentType", filename |-> filename,
                       content |-> content]
        /\ response' = [type |-> detectDocumentType(filename, content)]
        /\ UNCHANGED <<now, ledgerVars, wizardVars>>

ClassifyNext == Classify

ClassifySpec == ClassifyInit /\ [][ClassifyNext]_vars

(***************************************************************************)
(* parseJSONResponse (testimony question route).  A content is a sequence  *)
(* of tokens: the brackets and braces of JSON, a white space, a word of    *)
(* prose and a Markdown code fence.  No two tokens join into one JSON      *)
(* token, so a content is a JSON text exactly when its tokens other than   *)
(* white space derive from                                                 *)
(*     value ::= { } | [ ] | [ value ]                                     *)
(* and the value parsed is given by those tokens.                          *)
(***************************************************************************)
ContentTokens == {"[", "]", "{", "}", " ", "x", "fence"}

ParseContents == UNION {[1..k -> ContentTokens] : k \in 0..MaxContent}

IsSpace(token) == token = " "

\* the tokens of text other than white space
Strip(text) == SelectSeq(text, LAMBDA token : ~IsSpace(token))

RECURSIVE IsJSONValue(_)
IsJSONValue(tokens) ==
    \/ tokens = <<"{", "}">>
    \/ /\ Len(tokens) >= 2
       /\ Head(tokens) = "[" /\ tokens[Len(tokens)] = "]"
       /\ \/ Len(tokens) = 2
          \/ IsJSONValue(SubSeq(tokens, 2, Len(tokens) - 1))

\* JSON.parse(text); thrown: it throws SyntaxError
JSONParse(text) ==
    IF IsJSONValue(Strip(text))
    THEN [thrown |-> FALSE, value |-> Strip(text)]
    ELSE [thrown |-> TRUE, value |-> <<>>]

\* Array.isArray(parsed)
IsArray(parsed) == ~parsed.thrown /\ Head(parsed.value) = "["

\* what a strategy gives: an array (its value) or nothing
NoArray == [ok |-> FALSE, value |-> <<>>]

Try(text) ==
    LET parsed == JSONParse(text)
    IN  IF IsArray(parsed) THEN [ok |-> TRUE, value |-> parsed.value]
        ELSE NoArray

\* cleaned.replace: an opening code fence at the start is removed with the
\* white space that follows it
StripOpeningFence(text) ==
    IF text # <<>> /\ Head(text) = "fence" THEN TrimStart(Tail(text)) ELSE text

\* cleaned.replace: a closing code fence at the end is removed with the
\* white space that follows it
StripClosingFence(text) ==
    IF TrimEnd(text) # <<>> /\ TrimEnd(text)[Len(TrimEnd(text))] = "fence"
    THEN SubSeq(TrimEnd(text), 1, Len(TrimEnd(text)) - 1)
    ELSE text

\* Strategy 1: JSON.parse(content)
Strategy1(content) == Try(content)

\* Strategy 2: trim, strip the code fences, trim, parse
Strategy2(content) ==
    Try(Trim(StripClosingFence(StripOpeningFence(Trim(content)))))

\* the largest element of a set of numbers that is not empty
Largest(S) == CHOOSE e \in S : \A f \in S : f <= e

\* the ends of the matches of the regular expression of strategy 3 that
\* start at i: an opening bracket, white space, an opening brace, anything,
\* a closing brace, white space, a closing bracket
MatchEnds(content, i) ==
    {e \in i + 1..Len(content) :
        /\ content[i] = "[" /\ content[e] = "]"
        /\ \E j \in i + 1..e - 1, k \in i + 1..e - 1 :
            /\ j < k
            /\ content[j] = "{" /\ content[k] = "}"
            /\ \A m \in i + 1..j - 1 : IsSpace(content[m])
            /\ \A m \in k + 1..e - 1 : IsSpace(content[m])}

\* content.match(regular expression): the leftmost match, the longest
\* of those that start there (<<>>: null)
ArrayMatch(content) ==
    LET starts == {i \in 1..Len(content) : MatchEnds(content, i) # {}}
    IN  IF starts = {} THEN <<>>
        ELSE LET i == CHOOSE i \in starts : \A j \in starts : i <= j
             IN  SubSeq(content, i, Largest(MatchEnds(content, i)))

\* Strategy 3: parse the array the regular expression extracts
Strategy3(content) ==
    LET arrayMatch == ArrayMatch(content)
    IN  IF arrayMatch # <<>> THEN Try(arrayMatch) ELSE NoArray

\* Strategy 4: parse from the first '[' to the last ']'
Strategy4(content) ==
    LET opening == {i \in 1..Len(content) : content[i] = "["}
        closing == {i \in 1..Len(content) : content[i] = "]"}
        firstBracket == CHOOSE i \in opening : \A j \in opening : i <= j
        lastBracket == Largest(closing)
    IN  IF opening # {} /\ closing # {} /\ lastBracket > firstBracket
        THEN Try(SubSeq(content, firstBracket, lastBracket))
        ELSE NoArray

\* the array a strategy returned, with the number of the strategy
Returned(strategy, try) ==
    [isNull |-> FALSE, strategy |-> strategy, value |-> try.value]

ReturnedNull == [isNull |-> TRUE, strategy |-> 0, value |-> <<>>]

\* mutant: the regular expression is tried first
parseJSONResponse_regexFirst(content) ==
    IF Strategy3(content).ok THEN Returned(3, Strategy3(content))
    ELSE IF Strategy1(content).ok THEN Returned(1, Strategy1(content))
    ELSE IF Strategy2(content).ok THEN Returned(2, Strategy2(content))
    ELSE IF Strategy4(content).ok THEN Returned(4, Strategy4(content))
    ELSE ReturnedNull

parseJSONResponse(content) ==
    IF Strategy1(content).ok THEN Returned(1, Strategy1(content))
    ELSE IF Strategy2(content).ok THEN Returned(2, Strategy2(content))
    ELSE IF Strategy3(content).ok THEN Returned(3, Strategy3(content))
    ELSE IF Strategy4(content).ok THEN Returned(4, Strategy4(content))
    ELSE ReturnedNull

(***************************************************************************)
(* ParseSpec: parseJSONResponse is called once, with any content.          *)
(***************************************************************************)
ParseInit == RouteInit

Parse ==
    /\ request = NoRequest
    /\ \E content \in ParseContents :
        /\ request' = [route |-> "parseJSONResponse", content |-> content]
        /\ response' = parseJSONResponse(content)
    /\ UNCHANGED <<now, ledgerVars, wizardVars>>

ParseNext == Parse

ParseSpec == ParseInit /\ [][ParseNext]_vars

(***************************************************************************)
(* The sections autoOrganizeOutline builds (DepositionPrepTool).  A        *)
(* question is its topic ("": it has none) and its priority; its id is its *)
(* place in the session's list.                                            *)
(***************************************************************************)
topicOrder ==
    <<"Foundation", "Timeline", "Gap", "Contradiction", "Impeachment",
      "Follow-up", "General">>

QuestionTopics == {"", "Foundation", "Timeline", "General", "Damages", "Venue"}

Priorities == {"high", "medium", "low"}

QuestionLists ==
    UNION {[1..k -> [topic : QuestionTopics, priority : Priorities]] :
            k \in 0..MaxOutlineQ}

\* q.topic || 'General'
TopicOf(q) == IF q.topic = "" THEN "General" ELSE q.topic

\* the ids 1..n in increasing order
Ids(n) == [i \in 1..n |-> i]

\* topicGroups.get(topic): the ids of the questions of the topic, in the
\* order of the list
TopicGroup(questions, topic) ==
    SelectSeq(Ids(Len(questions)),
              LAMBDA i : TopicOf(questions[i]) = topic)

\* the keys of topicGroups in insertion order: the topics in the order of
\* their first question
TopicKeys(questions) ==
    LET first == SelectSeq(Ids(Len(questions)),
                    LAMBDA i : \A j \in 1..i - 1 :
                        TopicOf(questions[j]) # TopicOf(questions[i]))
    IN  [k \in 1..Len(first) |-> TopicOf(questions[first[k]])]

\* questions.sort by priorityOrder (the sort is stable)
SortByPriority(questions, ids) ==
    SelectSeq(ids, LAMBDA i : questions[i].priority = "high")
        \o SelectSeq(ids, LAMBDA i : questions[i].priority = "medium")
        \o SelectSeq(ids, LAMBDA i : questions[i].priority = "low")

Section(questions, topic) ==
    [title |-> topic,
     questions |-> SortByPriority(questions, TopicGroup(questions, topic))]

InTopicOrder(topic) == \E k \in 1..Len(topicOrder) : topicOrder[k] = topic

\* the sections of the topics in preferred order
PreferredSections(questions) ==
    LET present == SelectSeq(topicOrder,
                       LAMBDA topic : TopicGroup(questions, topic) # <<>>)
    IN  [k \in 1..Len(present) |-> Section(questions, present[k])]

\* mutant: the topics in preferred order are not deleted from topicGroups
organizeSections_noDelete(questions) ==
    LET keys == TopicKeys(questions)
    IN  PreferredSections(questions)
            \o [k \in 1..Len(keys) |-> Section(questions, keys[k])]

\* autoOrganizeOutline: the sections of the outline
organizeSections(questions) ==
    LET remaining == SelectSeq(TopicKeys(questions),
                               LAMBDA topic : ~InTopicOrder(topic))
    IN  PreferredSections(questions)
            \o [k \in 1..Len(remaining) |-> Section(questions, remaining[k])]

(***************************************************************************)
(* OutlineSpec: autoOrganizeOutline is called once, on a session with any  *)
(* question list.                                                          *)
(***************************************************************************)
OutlineInit == RouteInit

Organize ==
    /\ request = NoRequest
    /\ \E questions \in QuestionLists :
        /\ request' = [route |-> "autoOrganizeOutline",
                       questions |-> questions]
        /\ response' =
            IF Len(questions) = 0
            THEN [hasOutline |-> FALSE, sections |-> <<>>,
                  questions |-> questions]
            ELSE [hasOutline |-> TRUE,
                  sections |-> organizeSections(questions),
                  questions |-> questions]
    /\ UNCHANGED <<now, ledgerVars, wizardVars>>

OutlineNext == Organize

OutlineSpec == OutlineInit /\ [][OutlineNext]_vars

(***************************************************************************)
(* Parts shared by the handlers of the two wizards.                        *)
(***************************************************************************)
\* the effect on localStorage['wtp_current_deposition_session'] of rendering
\* with the in-memory session sess
SavedAfter(sess) ==
    IF tool = "deposition" /\ sess.id # 0 /\ sess.id # session.id
    THEN sess.id
    ELSE savedId

\* the file batches a user can drop
Batches == UNION {[1..k -> {"ok", "big"}] : k \in 0..MaxBatch}

\* the ledger and the displayed cost after a reply that carries cost
TrackCost(cost) ==
    IF cost > 0
    THEN /\ stats' = incrementSessionPrice(stats, now, cost)
         /\ priceUsed' = priceUsed + cost
    ELSE UNCHANGED <<stats, priceUsed>>

\* cost keeps the ledger and the displayed cost within the model's bounds
CostInBounds(cost) ==
    /\ getSessionStats(stats, now).ret.sessionPrice + cost <= MaxLedgerPrice
    /\ priceUsed + cost <= MaxLedgerPrice

\* renderDocuments shows the upload area and the generate button
DocumentsShown ==
    /\ currentStep = "documents"
    /\ ~isGeneratingQuestions
    /\ limitReached = "none"

\* disabled={!session?.documents.some((d) => d.status === 'ready') || ...}
canGenerate_anyDocument(sess) == Len(sess.documents) > 0

canGenerateTestimony(sess) == HasReady(sess)

\* disabled={!session?.documents.length || isGeneratingQuestions}
canGenerateDeposition(sess) == Len(sess.documents) > 0

\* mutant: the names are tested before they are trimmed
handleCreateSession_untrimmed(witnessName, caseName, thrown) ==
    /\ currentStep = "setup"
    /\ nextId <= MaxSessions
    /\ IF witnessName = <<>> \/ caseName = <<>>
       THEN UNCHANGED <<store, session, savedId, nextId, currentStep, error,
                        timers>>
       ELSE IF thrown
       THEN /\ error' = TRUE
            /\ timers' = TimersAfter(1)
            /\ UNCHANGED <<store, session, savedId, nextId, currentStep>>
       ELSE LET new == createSession(store, nextId, Trim(witnessName),
                                     Trim(caseName))
            IN  /\ store' = new.store
                /\ session' = new.ret
                /\ savedId' = SavedAfter(session')
                /\ nextId' = nextId + 1
                /\ currentStep' = "documents"
                /\ error' = FALSE
                /\ UNCHANGED timers
    /\ UNCHANGED <<now, routeVars, ledgerVars, tool, nextGen, limitReached,
                   isUploadingDocument, isGeneratingQuestions,
                   isSubmittingResponse, priceUsed, practiceVars, taskVars>>

\* handleCreateSession with the names of the form; thrown: createSession (or
\* createDepositionSession) throws
handleCreateSession(witnessName, caseName, thrown) ==
    /\ currentStep = "setup"
    /\ nextId <= MaxSessions
    /\ IF Trim(witnessName) = <<>> \/ Trim(caseName) = <<>>
       THEN UNCHANGED <<store, session, savedId, nextId, currentStep, error,
                        timers>>
       ELSE IF thrown
       THEN /\ error' = TRUE
            /\ timers' = TimersAfter(1)
            /\ UNCHANGED <<store, session, savedId, nextId, currentStep>>
       ELSE LET new == createSession(store, nextId, Trim(witnessName),
                                     Trim(caseName))
            IN  /\ store' = new.store
                /\ session' = new.ret
                /\ savedId' = SavedAfter(session')
                /\ nextId' = nextId + 1
                /\ currentStep' = "documents"
                /\ error' = FALSE
                /\ UNCHANGED timers
    /\ UNCHANGED <<now, routeVars, ledgerVars, tool, nextGen, limitReached,
                   isUploadingDocument, isGeneratingQuestions,
                   isSubmittingResponse, priceUsed, practiceVars, taskVars>>

\* the Create Session button with any texts in the form
CreateSession ==
    \E witnessName \in Names, caseName \in Names, thrown \in BOOLEAN :
        handleCreateSession(witnessName, caseName, thrown)

(***************************************************************************)
(* handleFileUpload.  An invocation awaits one file at a time; what it     *)
(* keeps while it waits is the id and the document count of the session it *)
(* was created with (the closure's session), the files from the awaited    *)
(* one on, and the place of the awaited file's document in the session.    *)
(***************************************************************************)
\* the invocations of handleFileUpload other than the i-th
OtherUploads(i) == Without(uploads, i)

\* TestimonyPrepTool: the upload loop runs on files until it awaits
TContinue(st, sess, sid, files) ==
    LET rest == SkipBig(files)
        add == addDocument(st, sid, "processing")
    IN  IF rest = <<>>
        THEN [store |-> st, session |-> sess, done |-> TRUE, files |-> rest,
              idx |-> 0, errors |-> Len(files)]
        ELSE [store |-> add.store,
              session |-> IF add.ret.id # 0 THEN add.ret ELSE sess,
              done |-> FALSE, files |-> rest,
              idx |-> IF add.ret.id # 0 THEN Len(add.ret.documents) ELSE 0,
              errors |-> Len(files) - Len(rest)]

\* TestimonyPrepTool.handleFileUpload(files) up to its first await
THandleFileUpload(files) ==
        /\ tool = "testimony"
        /\ DocumentsShown
        /\ session.id # 0
        /\ Len(uploads) < MaxUploads
        /\ IF Len(session.documents) >= maxDocumentsPerSession
           THEN /\ limitReached' = "documentLimit"
                /\ UNCHANGED <<store, session, error, timers,
                               isUploadingDocument, uploads>>
           ELSE LET c == TContinue(store, session, session.id, files)
                IN  /\ store' = c.store
                    /\ session' = c.session
                    /\ error' = (c.errors > 0)
                    /\ timers' = TimersAfter(c.errors)
                    /\ isUploadingDocument' = ~c.done
                    /\ uploads' =
                        IF c.done THEN uploads
                        ELSE Append(uploads,
                                [sid |-> session.id,
                                 len0 |-> Len(session.documents),
                                 files |-> c.files, idx |-> c.idx])
                    /\ UNCHANGED limitReached
        /\ UNCHANGED <<now, routeVars, ledgerVars, tool, savedId, nextId, nextGen,
                       currentStep, isGeneratingQuestions,
                       isSubmittingResponse, priceUsed, practiceVars,
                       genTask, subTask>>

\* files are dropped on the upload area of TestimonyPrepTool
TUploadStart == \E files \in Batches : THandleFileUpload(files)

\* TestimonyPrepTool.handleFileUpload from the reply for the awaited file to
\* its next await or its end; the reply is that of /api/testimony/ocr, or
\* the extraction or the request failed
TUploadResume ==
    \E i \in 1..Len(uploads), ok \in BOOLEAN, cost \in 0..MaxCost :
        LET task == uploads[i]
            cur == getSession(store, task.sid)
            upd == updateSession(store, task.sid,
                      [documents |->
                          MarkDocument(cur.documents, task.idx,
                                       IF ok THEN "ready" ELSE "error")])
            st1 == IF cur.id # 0 THEN upd.store ELSE store
            sess1 == IF cur.id # 0 /\ upd.ret.id # 0 THEN upd.ret ELSE session
            c == TContinue(st1, sess1, task.sid, Tail(task.files))
            errors == c.errors + (IF ok THEN 0 ELSE 1)
        IN  /\ tool = "testimony"
            /\ (ok) = (cost > 0)
            /\ CostInBounds(cost)
            /\ TrackCost(cost)
            /\ store' = c.store
            /\ session' = c.session
            /\ error' = (error \/ errors > 0)
            /\ timers' = TimersAfter(errors)
            /\ isUploadingDocument' = IF c.done THEN FALSE ELSE isUploadingDocument
            /\ uploads' =
                IF c.done THEN OtherUploads(i)
                ELSE [uploads EXCEPT ![i].files = c.files, ![i].idx = c.idx]
            /\ UNCHANGED <<now, routeVars, readFrom, returned, tool, savedId, nextId,
                           nextGen, currentStep, limitReached,
                           isGeneratingQuestions, isSubmittingResponse,
                           practiceVars, genTask, subTask>>

\* DepositionPrepTool: the upload loop runs on files until it awaits; len0 is
\* session.documents.length of the closure's session
DContinue(len0, files) ==
    IF files = <<>>
    THEN [done |-> TRUE, files |-> files, errors |-> 0]
    ELSE IF len0 >= maxDocumentsPerSession
         THEN [done |-> TRUE, files |-> <<>>, errors |-> 1]
         ELSE [done |-> SkipBig(files) = <<>>, files |-> SkipBig(files),
               errors |-> Len(files) - Len(SkipBig(files))]

\* DepositionPrepTool.handleFileUpload(files) up to its first await
DHandleFileUpload(files) ==
        /\ tool = "deposition"
        /\ DocumentsShown
        /\ session.id # 0
        /\ Len(uploads) < MaxUploads
        /\ IF Len(session.documents) >= maxDocumentsPerSession
           THEN /\ limitReached' = "documentLimit"
                /\ error' = TRUE
                /\ timers' = TimersAfter(1)
                /\ UNCHANGED <<isUploadingDocument, uploads>>
           ELSE LET c == DContinue(Len(session.documents), files)
                IN  /\ error' = (c.errors > 0)
                    /\ timers' = TimersAfter(c.errors)
                    /\ isUploadingDocument' = ~c.done
                    /\ uploads' =
                        IF c.done THEN uploads
                        ELSE Append(uploads,
                                [sid |-> session.id,
                                 len0 |-> Len(session.documents),
                                 files |-> c.files, idx |-> 0])
                    /\ UNCHANGED limitReached
        /\ UNCHANGED <<now, routeVars, ledgerVars, tool, storeVars, nextGen, session,
                       currentStep, isGeneratingQuestions,
                       isSubmittingResponse, priceUsed, practiceVars,
                       genTask, subTask>>

\* files are dropped on the upload area of DepositionPrepTool
DUploadStart == \E files \in Batches : DHandleFileUpload(files)

\* DepositionPrepTool.handleFileUpload from the end of the FileReader's read
\* of the awaited file to its next await or its end
DUploadResume ==
    \E i \in 1..Len(uploads), ok \in BOOLEAN :
        LET task == uploads[i]
            add == addDocument(store, task.sid, "ready")
            added == ok /\ add.ret.id # 0
            c == DContinue(task.len0, Tail(task.files))
            errors == c.errors + (IF ok THEN 0 ELSE 1)
        IN  /\ tool = "deposition"
            /\ store' = IF ok THEN add.store ELSE store
            /\ session' = IF added THEN add.ret ELSE session
            /\ savedId' = SavedAfter(session')
            /\ error' = (error \/ errors > 0)
            /\ timers' = TimersAfter(errors)
            /\ isUploadingDocument' = IF c.done THEN FALSE ELSE isUploadingDocument
            /\ uploads' =
                IF c.done THEN OtherUploads(i)
                ELSE [uploads EXCEPT ![i].files = c.files]
            /\ UNCHANGED <<now, routeVars, ledgerVars, tool, nextId, nextGen,
                           currentStep, limitReached, isGeneratingQuestions,
                           isSubmittingResponse, priceUsed, practiceVars,
                           genTask, subTask>>

(***************************************************************************)
(* Question generation.                                                    *)
(***************************************************************************)
\* the question list a reply with n questions puts into the session
Generated(n) == IF n = 0 THEN NoQuestions ELSE [gen |-> nextGen, n |-> n]

\* TestimonyPrepTool.handleGenerateQuestions up to its await
TGenStart ==
    /\ tool = "testimony"
    /\ DocumentsShown
    /\ canGenerateTestimony(session)
    /\ handleGenerateQuestionsGuard(session)
    /\ nextGen <= MaxGens
    /\ isGeneratingQuestions' = TRUE
    /\ error' = FALSE
    /\ genTask' = Waiting(session, <<>>)
    /\ UNCHANGED <<now, routeVars, ledgerVars, tool, storeVars, nextGen, session,
                   currentStep, limitReached, timers, isUploadingDocument,
                   isSubmittingResponse, priceUsed, practiceVars, uploads,
                   subTask>>

\* TestimonyPrepTool.handleGenerateQuestions from the reply on
TGenDone ==
    \E out \in FetchOutcomes(TestimonyReplies(genTask)) :
        LET thrown == out.thrown
            data == out.data
            upd == setQuestions(store, genTask.sid, Generated(data.n))
            set == ~thrown /\ data.ok /\ data.n > 0
            failed == thrown \/ (~data.ok /\ ~data.limitReached)
                        \/ (data.ok /\ data.n = 0)
        IN  /\ tool = "testimony"
            /\ genTask.active
            /\ IF ~thrown /\ data.ok
               THEN CostInBounds(data.cost) /\ TrackCost(data.cost)
               ELSE UNCHANGED <<stats, priceUsed>>
            /\ limitReached' =
                IF ~thrown /\ ~data.ok /\ data.limitReached
                THEN "priceLimit" ELSE limitReached
            /\ store' = IF set THEN upd.store ELSE store
            /\ session' = IF set /\ upd.ret.id # 0 THEN upd.ret ELSE session
            /\ currentStep' =
                IF set /\ upd.ret.id # 0 THEN "questions" ELSE currentStep
            /\ nextGen' = IF set THEN nextGen + 1 ELSE nextGen
            /\ error' = (error \/ failed)
            /\ timers' = TimersAfter(IF failed THEN 1 ELSE 0)
            /\ isGeneratingQuestions' = FALSE
            /\ genTask' = NoTask
            /\ UNCHANGED <<now, routeVars, readFrom, returned, tool, savedId, nextId,
                           isUploadingDocument, isSubmittingResponse,
                           practiceVars, uploads, subTask>>

\* DepositionPrepTool.generateQuestions up to its await
DGenStart ==
    /\ tool = "deposition"
    /\ DocumentsShown
    /\ canGenerateDeposition(session)
    /\ handleGenerateQuestionsGuard(session)
    /\ nextGen <= MaxGens
    /\ isGeneratingQuestions' = TRUE
    /\ error' = FALSE
    /\ genTask' = Waiting(session, <<>>)
    /\ UNCHANGED <<now, routeVars, ledgerVars, tool, storeVars, nextGen, session,
                   currentStep, limitReached, timers, isUploadingDocument,
                   isSubmittingResponse, priceUsed, practiceVars, uploads,
                   subTask>>

\* mutant: the returns of the reply that is not ok leave the handler without
\* its finally block
DGenDone_returnSkipsFinally ==
    \E out \in FetchOutcomes(DepositionReplies(genTask)) :
        LET thrown == out.thrown
            data == out.data
            upd1 == setQuestions(store, genTask.sid, Generated(data.n))
            upd == setAnalysisResults(upd1.store, genTask.sid, data.hasAnalysis)
            set == ~thrown /\ data.ok
            failed == thrown \/ (~data.ok /\ ~data.limitReached)
        IN  /\ tool = "deposition"
            /\ genTask.active
            /\ IF set
               THEN CostInBounds(data.cost) /\ TrackCost(data.cost)
               ELSE UNCHANGED <<stats, priceUsed>>
            /\ limitReached' =
                IF ~thrown /\ ~data.ok /\ data.limitReached
                THEN "priceLimit" ELSE limitReached
            /\ store' = IF set THEN upd.store ELSE store
            /\ session' = IF set /\ upd.ret.id # 0 THEN upd.ret ELSE session
            /\ savedId' = SavedAfter(session')
            /\ currentStep' =
                IF set /\ upd.ret.id # 0 THEN "analysis" ELSE currentStep
            /\ nextGen' = IF set /\ data.n > 0 THEN nextGen + 1 ELSE nextGen
            /\ error' = (error \/ failed)
            /\ timers' = TimersAfter(IF failed THEN 1 ELSE 0)
            /\ isGeneratingQuestions' =
                IF ~thrown /\ ~data.ok THEN isGeneratingQuestions ELSE FALSE
            /\ genTask' = NoTask
            /\ UNCHANGED <<now, routeVars, readFrom, returned, tool, nextId,
                           isUploadingDocument, isSubmittingResponse,
                           practiceVars, uploads, subTask>>

\* DepositionPrepTool.generateQuestions from the reply on
DGenDone ==
    \E out \in FetchOutcomes(DepositionReplies(genTask)) :
        LET thrown == out.thrown
            data == out.data
            upd1 == setQuestions(store, genTask.sid, Generated(data.n))
            upd == setAnalysisResults(upd1.store, genTask.sid, data.hasAnalysis)
            set == ~thrown /\ data.ok
            failed == thrown \/ (~data.ok /\ ~data.limitReached)
        IN  /\ tool = "deposition"
            /\ genTask.active
            /\ IF set
               THEN CostInBounds(data.cost) /\ TrackCost(data.cost)
               ELSE UNCHANGED <<stats, priceUsed>>
            /\ limitReached' =
                IF ~thrown /\ ~data.ok /\ data.limitReached
                THEN "priceLimit" ELSE limitReached
            /\ store' = IF set THEN upd.store ELSE store
            /\ session' = IF set /\ upd.ret.id # 0 THEN upd.ret ELSE session
            /\ savedId' = SavedAfter(session')
            /\ currentStep' =
                IF set /\ upd.ret.id # 0 THEN "analysis" ELSE currentStep
            /\ nextGen' = IF set /\ data.n > 0 THEN nextGen + 1 ELSE nextGen
            /\ error' = (error \/ failed)
            /\ timers' = TimersAfter(IF failed THEN 1 ELSE 0)
            /\ isGeneratingQuestions' = FALSE
            /\ genTask' = NoTask
            /\ UNCHANGED <<now, routeVars, readFrom, returned, tool, nextId,
                           isUploadingDocument, isSubmittingResponse,
                           practiceVars, uploads, subTask>>

\* DepositionPrepTool.autoOrganizeOutline; its buttons are on the analysis,
\* questions and (while there is no outline) outline steps
autoOrganizeOutline ==
    LET upd == updateSession(store, session.id,
                             [outline |-> session.questions])
    IN  /\ tool = "deposition"
        /\ \/ currentStep = "analysis" /\ limitReached = "none"
           \/ currentStep = "questions"
           \/ currentStep = "outline" /\ session.outline = NoQuestions
        /\ session.id # 0 /\ session.questions.n # 0
        /\ store' = upd.store
        /\ session' = IF upd.ret.id # 0 THEN upd.ret ELSE session
        /\ currentStep' = IF upd.ret.id # 0 THEN "outline" ELSE currentStep
        /\ UNCHANGED <<now, routeVars, ledgerVars, tool, savedId, nextId, nextGen,
                       flagVars, practiceVars, taskVars>>

(***************************************************************************)
(* Practice (TestimonyPrepTool).                                           *)
(***************************************************************************)
\* renderPractice shows the card of the current question
PracticeShown ==
    /\ tool = "testimony"
    /\ currentStep = "practice"
    /\ limitReached = "none"
    /\ currentQuestionIndex < session.questions.n

\* mutant: the index of the current question is kept
startPractice_keepsIndex ==
    /\ tool = "testimony"
    /\ currentStep = "questions"
    /\ currentStep' = "practice"
    /\ error' = FALSE
    /\ UNCHANGED <<now, routeVars, ledgerVars, tool, storeVars, nextGen, session,
                   limitReached, timers, isUploadingDocument,
                   isGeneratingQuestions, isSubmittingResponse, priceUsed,
                   practiceVars, taskVars>>

startPractice ==
    /\ tool = "testimony"
    /\ currentStep = "questions"
    /\ currentStep' = "practice"
    /\ currentQuestionIndex' = 0
    /\ error' = FALSE
    /\ UNCHANGED <<now, routeVars, ledgerVars, tool, storeVars, nextGen, session,
                   limitReached, timers, isUploadingDocument,
                   isGeneratingQuestions, isSubmittingResponse, priceUsed,
                   witnessResponse, showFeedback, taskVars>>

\* the user edits the response
setWitnessResponse ==
    /\ PracticeShown
    /\ ~showFeedback
    /\ witnessResponse' \in Names \ {witnessResponse}
    /\ UNCHANGED <<now, routeVars, ledgerVars, tool, storeVars, nextGen, session,
                   currentStep, flagVars, currentQuestionIndex, showFeedback,
                   taskVars>>

\* submitResponse up to its await
SubmitStart ==
    /\ PracticeShown
    /\ ~showFeedback
    /\ Trim(witnessResponse) # <<>> /\ ~isSubmittingResponse
    /\ submitResponseGuard(session, witnessResponse, currentQuestionIndex)
    /\ isSubmittingResponse' = TRUE
    /\ showFeedback' = FALSE
    /\ error' = FALSE
    /\ subTask' = Waiting(session, witnessResponse)
    /\ UNCHANGED <<now, routeVars, ledgerVars, tool, storeVars, nextGen, session,
                   currentStep, limitReached, timers, isUploadingDocument,
                   isGeneratingQuestions, priceUsed, currentQuestionIndex,
                   witnessResponse, uploads, genTask>>

\* submitResponse from the reply on
SubmitDone ==
    \E out \in FetchOutcomes(PracticeReplies(subTask)) :
        LET thrown == out.thrown
            data == out.data
            done == ~thrown /\ data.ok
            failed == thrown \/ (~data.ok /\ ~data.limitReached)
        IN  /\ tool = "testimony"
            /\ subTask.active
            /\ IF done
               THEN CostInBounds(data.cost) /\ TrackCost(data.cost)
               ELSE UNCHANGED <<stats, priceUsed>>
            /\ limitReached' =
                IF ~thrown /\ ~data.ok /\ data.limitReached
                THEN "priceLimit" ELSE limitReached
            /\ session' =
                IF done /\ subTask.sid \in DOMAIN store
                THEN store[subTask.sid] ELSE session
            /\ showFeedback' = IF done /\ data.aiResponse THEN TRUE ELSE showFeedback
            /\ error' = (error \/ failed)
            /\ timers' = TimersAfter(IF failed THEN 1 ELSE 0)
            /\ isSubmittingResponse' = FALSE
            /\ subTask' = NoTask
            /\ UNCHANGED <<now, routeVars, readFrom, returned, tool, storeVars, nextGen,
                           currentStep, isUploadingDocument,
                           isGeneratingQuestions, currentQuestionIndex,
                           witnessResponse, uploads, genTask>>

\* nextQuestion, from the Skip button or from the button under the feedback
nextQuestion ==
    /\ PracticeShown
    /\ currentQuestionIndex < MaxPractice
    /\ showFeedback \/ ~isSubmittingResponse
    /\ session.id # 0
    /\ IF currentQuestionIndex < session.questions.n - 1
       THEN /\ currentQuestionIndex' = currentQuestionIndex + 1
            /\ witnessResponse' = <<>>
            /\ showFeedback' = FALSE
            /\ UNCHANGED currentStep
       ELSE /\ currentStep' = "review"
            /\ UNCHANGED practiceVars
    /\ UNCHANGED <<now, routeVars, ledgerVars, tool, storeVars, nextGen, session,
                   flagVars, taskVars>>

\* the Practice Again button of the review step
PracticeAgain ==
    /\ tool = "testimony"
    /\ currentStep = "review"
    /\ currentStep' = "practice"
    /\ currentQuestionIndex' = 0
    /\ witnessResponse' = <<>>
    /\ showFeedback' = FALSE
    /\ UNCHANGED <<now, routeVars, ledgerVars, tool, storeVars, nextGen, session,
                   flagVars, taskVars>>

(***************************************************************************)
(* Navigation, the limit screen, the error banner.                         *)
(***************************************************************************)
TestimonySteps == <<"documents", "questions", "practice", "review">>

DepositionSteps == <<"documents", "analysis", "questions", "outline">>

\* steps.indexOf(step), counted from 1; 0 when step is not in steps
IndexOf(steps, step) ==
    IF \E i \in 1..Len(steps) : steps[i] = step
    THEN CHOOSE i \in 1..Len(steps) : steps[i] = step
    ELSE 0

\* the navigation bar is rendered
NavShown == session.id # 0 /\ currentStep # "setup"

\* TestimonyPrepTool: a click on a step of the navigation bar that changes
\* the step
TNav ==
    \E i \in 1..Len(TestimonySteps) :
        /\ tool = "testimony"
        /\ NavShown
        /\ i < IndexOf(TestimonySteps, currentStep)
        /\ currentStep' = TestimonySteps[i]
        /\ UNCHANGED <<now, routeVars, ledgerVars, tool, storeVars, nextGen, session,
                       flagVars, practiceVars, taskVars>>

\* mutant: the step after the current one is accessible too
isAccessible_nextStep(sess, step, i) ==
    \/ i <= IndexOf(DepositionSteps, step) + 1
    \/ DepositionSteps[i] = "analysis" /\ sess.hasAnalysis
    \/ DepositionSteps[i] = "questions" /\ sess.questions.n > 0
    \/ DepositionSteps[i] = "outline" /\ sess.outline # NoQuestions

\* DepositionPrepTool: isAccessible of the i-th step of the navigation bar
isAccessible(sess, step, i) ==
    \/ i <= IndexOf(DepositionSteps, step)
    \/ DepositionSteps[i] = "analysis" /\ sess.hasAnalysis
    \/ DepositionSteps[i] = "questions" /\ sess.questions.n > 0
    \/ DepositionSteps[i] = "outline" /\ sess.outline # NoQuestions

\* DepositionPrepTool: a click on a step of the navigation bar that changes
\* the step
DNav ==
    \E i \in 1..Len(DepositionSteps) :
        /\ tool = "deposition"
        /\ NavShown
        /\ isAccessible(session, currentStep, i)
        /\ DepositionSteps[i] # currentStep
        /\ currentStep' = DepositionSteps[i]
        /\ UNCHANGED <<now, routeVars, ledgerVars, tool, storeVars, nextGen, session,
                       flagVars, practiceVars, taskVars>>

\* DepositionPrepTool: the View Analysis and View Questions buttons of the
\* documents, analysis, questions and outline steps
DView ==
    \E step \in {"analysis", "questions"} :
        /\ tool = "deposition"
        /\ CASE currentStep = "documents" ->
                    /\ DocumentsShown
                    /\ IF step = "analysis" THEN session.hasAnalysis
                       ELSE session.questions.n > 0
             [] currentStep = "analysis" ->
                    limitReached = "none" /\ step = "questions"
             [] currentStep = "questions" -> step = "analysis"
             [] currentStep = "outline" -> step = "questions"
             [] OTHER -> FALSE
        /\ currentStep' = step
        /\ UNCHANGED <<now, routeVars, ledgerVars, tool, storeVars, nextGen, session,
                       flagVars, practiceVars, taskVars>>

\* the limit screen with its Go Back button is rendered: only
\* TestimonyPrepTool has the button
GoBackShown ==
    /\ tool = "testimony"
    /\ limitReached # "none"
    /\ \/ currentStep = "documents" /\ ~isGeneratingQuestions
       \/ currentStep = "practice"

\* the Go Back button: setLimitReached(null)
AckLimit ==
    /\ GoBackShown
    /\ limitReached' = "none"
    /\ UNCHANGED <<now, routeVars, ledgerVars, tool, storeVars, nextGen, session,
                   currentStep, error, timers, isUploadingDocument,
                   isGeneratingQuestions, isSubmittingResponse, priceUsed,
                   practiceVars, taskVars>>

\* the close button of the error banner
DismissError ==
    /\ error
    /\ error' = FALSE
    /\ UNCHANGED <<now, routeVars, ledgerVars, tool, storeVars, nextGen, session,
                   currentStep, limitReached, timers, isUploadingDocument,
                   isGeneratingQuestions, isSubmittingResponse, priceUsed,
                   practiceVars, taskVars>>

\* mutant: the timer of showError clears the limit screen too
ErrorTimeout_clearsLimit ==
    /\ timers.last
    /\ error' = FALSE
    /\ limitReached' = "none"
    /\ timers' = IF timers.older > 0 THEN [timers EXCEPT !.older = @ - 1]
                 ELSE [timers EXCEPT !.last = FALSE]
    /\ UNCHANGED <<now, routeVars, ledgerVars, tool, storeVars, nextGen, session,
                   currentStep, isUploadingDocument,
                   isGeneratingQuestions, isSubmittingResponse, priceUsed,
                   practiceVars, taskVars>>

\* the oldest pending timer of showError fires: setError(null)
ErrorTimeout ==
    /\ timers.last
    /\ error' = FALSE
    /\ timers' = IF timers.older > 0 THEN [timers EXCEPT !.older = @ - 1]
                 ELSE [timers EXCEPT !.last = FALSE]
    /\ UNCHANGED <<now, routeVars, ledgerVars, tool, storeVars, nextGen, session,
                   currentStep, limitReached, isUploadingDocument,
                   isGeneratingQuestions, isSubmittingResponse, priceUsed,
                   practiceVars, taskVars>>

(***************************************************************************)
(* Reset and mount.                                                        *)
(***************************************************************************)
\* TestimonyPrepTool.resetToSetup, from the X of the navigation bar or from
\* Start New Session of the review step
TReset ==
    /\ tool = "testimony"
    /\ NavShown
    /\ store' = deleteSession(store, session.id)
    /\ session' = NullSession
    /\ currentStep' = "setup"
    /\ currentQuestionIndex' = 0
    /\ witnessResponse' = <<>>
    /\ showFeedback' = FALSE
    /\ error' = FALSE
    /\ limitReached' = "none"
    /\ stats' = getSessionStats(stats, now).stored
    /\ priceUsed' = getSessionStats(stats, now).ret.sessionPrice
    /\ UNCHANGED <<now, routeVars, readFrom, returned, tool, savedId, nextId, nextGen,
                   timers, isUploadingDocument, isGeneratingQuestions,
                   isSubmittingResponse, taskVars>>

\* DepositionPrepTool.resetToSetup, from the X of the navigation bar
DReset ==
    /\ tool = "deposition"
    /\ NavShown
    /\ session' = NullSession
    /\ currentStep' = "setup"
    /\ error' = FALSE
    /\ limitReached' = "none"
    /\ stats' = getSessionStats(stats, now).stored
    /\ priceUsed' = getSessionStats(stats, now).ret.sessionPrice
    /\ savedId' = 0
    /\ UNCHANGED <<now, routeVars, readFrom, returned, tool, store, nextId, nextGen,
                   timers, isUploadingDocument, isGeneratingQuestions,
                   isSubmittingResponse, practiceVars, taskVars>>

\* the step the mount effect of DepositionPrepTool shows for a saved session
RestoredStep(saved) ==
    IF saved.outline # NoQuestions THEN "outline"
    ELSE IF saved.questions.n > 0 THEN "questions"
    ELSE IF Len(saved.documents) > 0 THEN "documents"
    ELSE "setup"

\* the page is loaded again and a tool is opened: the component starts from
\* its initial state, what the old one awaited is abandoned, and the mount
\* effect reads the ledger and (DepositionPrepTool) the saved session
Mount ==
    \E t \in {"testimony", "deposition"} :
        LET saved == IF t = "deposition" THEN getSession(store, savedId)
                     ELSE NullSession
        IN  /\ tool' = t
            /\ stats' = getSessionStats(stats, now).stored
            /\ priceUsed' = getSessionStats(stats, now).ret.sessionPrice
            /\ session' = saved
            /\ currentStep' = IF saved.id # 0 THEN RestoredStep(saved) ELSE "setup"
            /\ limitReached' = "none"
            /\ error' = FALSE
            /\ timers' = NoTimers
            /\ isUploadingDocument' = FALSE
            /\ isGeneratingQuestions' = FALSE
            /\ isSubmittingResponse' = FALSE
            /\ currentQuestionIndex' = 0
            /\ witnessResponse' = <<>>
            /\ showFeedback' = FALSE
            /\ uploads' = <<>>
            /\ genTask' = NoTask
            /\ subTask' = NoTask
            /\ UNCHANGED <<now, routeVars, readFrom, returned, storeVars, nextGen>>

Next ==
    \/ Tick
    \/ CreateSession
    \/ TUploadStart
    \/ TUploadResume
    \/ DUploadStart
    \/ DUploadResume
    \/ TGenStart
    \/ TGenDone
    \/ DGenStart
    \/ DGenDone
    \/ autoOrganizeOutline
    \/ startPractice
    \/ setWitnessResponse
    \/ SubmitStart
    \/ SubmitDone
    \/ nextQuestion
    \/ PracticeAgain
    \/ TNav
    \/ DNav
    \/ DView
    \/ AckLimit
    \/ DismissError
    \/ ErrorTimeout
    \/ TReset
    \/ DReset
    \/ Mount

Spec == Init /\ [][Next]_vars

\* a pending request settles: the promise a handler awaits is resolved or
\* rejected, and the handler is resumed
Settles ==
    /\ WF_vars(TUploadResume)
    /\ WF_vars(DUploadResume)
    /\ WF_vars(TGenDone)
    /\ WF_vars(DGenDone)
    /\ WF_vars(SubmitDone)

(***************************************************************************)
(* HandlerSpec: the handlers that await requests, with the actions that    *)
(* lead to them and the resets that can come while they wait; every        *)
(* pending request settles.  The clock stands still, an error message      *)
(* stays until a handler clears it, and the navigation bar is not used.    *)
(***************************************************************************)
HandlerNext ==
    \/ CreateSession
    \/ TUploadStart
    \/ TUploadResume
    \/ DUploadStart
    \/ DUploadResume
    \/ TGenStart
    \/ TGenDone
    \/ DGenStart
    \/ DGenDone
    \/ startPractice
    \/ setWitnessResponse
    \/ SubmitStart
    \/ SubmitDone
    \/ TReset
    \/ DReset

HandlerSpec == Init /\ [][HandlerNext]_vars /\ Settles

(***************************************************************************)
(* C4: a call of getSessionStats at or after sessionResetAt stores and     *)
(* returns a record with sessionPrice = 0, documentsUploaded = 0 and a     *)
(* strictly later sessionResetAt; a call before sessionResetAt returns the *)
(* stored record and leaves it as it is.                                   *)
(***************************************************************************)
RolloverOnRead ==
    [][LGetSessionStats =>
        IF now >= stats.sessionResetAt
        THEN /\ stats'.sessionPrice = 0
             /\ stats'.documentsUploaded = 0
             /\ stats'.sessionResetAt > stats.sessionResetAt
             /\ returned' = stats'
        ELSE /\ stats' = stats
             /\ returned' = stats]_vars

\* a ledger with recorded usage was read at its reset time or later: the
\* window that started at 0 has been replaced
RolloverOnReadWitness ==
    /\ readFrom.exists
    /\ readFrom.sessionPrice > 0
    /\ readFrom.documentsUploaded > 0
    /\ now >= readFrom.sessionResetAt
    /\ returned.sessionPrice = 0

DocumentLimitHolds ==
    /\ Len(session.documents) <= maxDocumentsPerSession
    /\ \A id \in DOMAIN store :
            Len(store[id].documents) <= maxDocumentsPerSession

(***************************************************************************)
(* C2: the files of a batch are taken one after the other and the document *)
(* limit is checked before each of them against the session's count with   *)
(* the earlier files of the batch included: a step adds a document to a    *)
(* session only if the session holds fewer than maxDocumentsPerSession.    *)
(***************************************************************************)
LimitCheckedBeforeEachFile ==
    [][\A id \in DOMAIN store \cap DOMAIN store' :
            Len(store'[id].documents) > Len(store[id].documents)
                => Len(store[id].documents) < maxDocumentsPerSession]_vars

(***************************************************************************)
(* C3: an operation whose cost would take the ledger's sessionPrice over   *)
(* sessionPriceLimit is denied and adds nothing to the ledger: whenever    *)
(* the recorded cost grows, it stays within the limit.                     *)
(***************************************************************************)
PriceLimitEnforced ==
    [][stats'.sessionPrice > stats.sessionPrice
            => stats'.sessionPrice <= sessionPriceLimit]_vars

(***************************************************************************)
(* C6: resetToSetup, in both tools, ends on the setup step with no session *)
(* in memory and no persisted record of the session's id, and leaves the   *)
(* ledger of a running window as it is.                                    *)
(***************************************************************************)
ResetClearsSession ==
    [][TReset \/ DReset =>
        /\ currentStep' = "setup"
        /\ session' = NullSession
        /\ session.id \notin DOMAIN store'
        /\ now < stats.sessionResetAt => stats' = stats]_vars

(***************************************************************************)
(* C7: the question generator's request is sent, and the step changes from *)
(* documents to a later step (questions in the testimony tool, analysis in *)
(* the deposition tool, or beyond), only when the session holds a document *)
(* with status ready.                                                      *)
(***************************************************************************)
GenerationNeedsReadyDocument ==
    [][/\ ~genTask.active /\ genTask'.active => HasReady(session)
       /\ currentStep = "documents" /\ currentStep' \notin {"documents", "setup"}
            => HasReady(session')]_vars

\* the testimony wizard has gone from documents to questions with a session
\* in which one document is ready and another is not
GenerationNeedsReadyDocumentWitness ==
    /\ tool = "testimony"
    /\ currentStep = "questions"
    /\ HasReady(session)
    /\ \E i \in 1..Len(session.documents) : session.documents[i] = "error"

(***************************************************************************)
(* C8: on a step that follows the questions (practice and review in the    *)
(* testimony tool, outline in the deposition tool) the session holds at    *)
(* least one question.                                                     *)
(***************************************************************************)
QuestionsPresentAfterGeneration ==
    \/ tool = "testimony" /\ currentStep \in {"practice", "review"}
    \/ tool = "deposition" /\ currentStep = "outline"
    => session.questions.n >= 1

AcknowledgeAvailable ==
    limitReached # "none" => GoBackShown

(***************************************************************************)
(* C11: a click in the step navigation bar changes the current step to s   *)
(* only if s is not after the current step in the bar or the session       *)
(* already holds the data of s (analysis: gaps or contradictions;          *)
(* questions: at least one question; outline: an outline).                 *)
(***************************************************************************)
NavigationOnlyToReachable ==
    [][TNav \/ DNav =>
        LET steps == IF tool = "testimony" THEN TestimonySteps
                     ELSE DepositionSteps
        IN  \/ IndexOf(steps, currentStep') <= IndexOf(steps, currentStep)
            \/ currentStep' = "analysis" /\ session.hasAnalysis
            \/ currentStep' = "questions" /\ session.questions.n >= 1
            \/ currentStep' = "outline" /\ session.outline # NoQuestions]_vars

\* the deposition wizard was taken back to the documents step by the
\* navigation bar while its session has questions and an outline, so the bar
\* offers the later steps by their data
NavigationOnlyToReachableWitness ==
    /\ tool = "deposition"
    /\ currentStep = "documents"
    /\ session.questions.n >= 1
    /\ session.outline # NoQuestions

(***************************************************************************)
(* C12: the step changes from setup to documents only through a successful *)
(* session creation, and a session is created only when the subject name   *)
(* and the case name are both non-empty after trimming; with either one    *)
(* blank no session is created, nothing is persisted and the step stays    *)
(* setup.                                                                  *)
(***************************************************************************)
SetupLeftOnlyByCreation ==
    [][/\ currentStep = "setup" /\ currentStep' = "documents"
            => /\ CreateSession
               /\ session'.id \notin DOMAIN store
               /\ session'.id \in DOMAIN store'
       /\ \A id \in DOMAIN store' \ DOMAIN store :
            /\ store'[id].witnessName # <<>>
            /\ store'[id].caseName # <<>>
       /\ \A witnessName \in Names, caseName \in Names, thrown \in BOOLEAN :
            /\ Trim(witnessName) = <<>> \/ Trim(caseName) = <<>>
            /\ handleCreateSession(witnessName, caseName, thrown)
            => UNCHANGED <<store, savedId, session, currentStep>>]_vars

(***************************************************************************)
(* C12, amended: the same, except that the mount effect of                 *)
(* DepositionPrepTool also shows the documents step, for the saved session *)
(* it restores when that session has documents and neither questions nor   *)
(* an outline.                                                             *)
(***************************************************************************)
SetupLeftByCreationOrRestore ==
    [][/\ currentStep = "setup" /\ currentStep' = "documents"
            => \/ /\ CreateSession
                  /\ session'.id \notin DOMAIN store
                  /\ session'.id \in DOMAIN store'
               \/ /\ Mount
                  /\ tool' = "deposition"
                  /\ savedId \in DOMAIN store
                  /\ session' = store[savedId]
                  /\ Len(session'.documents) > 0
                  /\ session'.questions.n = 0
                  /\ session'.outline = NoQuestions
       /\ \A id \in DOMAIN store' \ DOMAIN store :
            /\ store'[id].witnessName # <<>>
            /\ store'[id].caseName # <<>>
       /\ \A witnessName \in Names, caseName \in Names, thrown \in BOOLEAN :
            /\ Trim(witnessName) = <<>> \/ Trim(caseName) = <<>>
            /\ handleCreateSession(witnessName, caseName, thrown)
            => UNCHANGED <<store, savedId, session, currentStep>>]_vars

\* a session was just created from the setup form: it is persisted with both
\* names and has no document yet
SetupLeftByCreationOrRestoreWitness ==
    /\ currentStep = "documents"
    /\ session.id \in DOMAIN store
    /\ store[session.id] = session
    /\ session.witnessName # <<>>
    /\ session.caseName # <<>>
    /\ session.documents = <<>>

(***************************************************************************)
(* C13: when the remote call of the testimony question generator throws or *)
(* answers with a status that is not 2xx, the route still answers 200 with *)
(* exactly 20 questions of the static fallback set, usedFallback = true    *)
(* and cost = 0, and it has called the remote endpoint once.               *)
(***************************************************************************)
FallbackOnRemoteFailure ==
    /\ request.route = "testimony"
    /\ request.witnessName # <<>> /\ request.caseName # <<>>
    /\ request.nDocs > 0
    /\ request.kind \in {"throw", "non2xx"}
    => /\ response.status = 200
       /\ response.n = 20
       /\ response.fallback
       /\ response.usedFallback
       /\ response.cost = 0
       /\ response.calls = 1

\* the testimony wizard asked for questions, the remote endpoint answered
\* with a status that is not 2xx, and the reply carries the fallback set
FallbackOnRemoteFailureWitness ==
    /\ request.route = "testimony"
    /\ request.by = "wizard"
    /\ request.kind = "non2xx"
    /\ response.status = 200
    /\ response.n = 20

(***************************************************************************)
(* C14: whatever the content of the remote response (valid JSON, JSON of   *)
(* an unexpected shape, not JSON, empty), both question generators answer  *)
(* 200 with a question list that is not empty, and usedFallback is true    *)
(* exactly when the questions are those of the local fallback.             *)
(***************************************************************************)
MalformedResponseAbsorbed ==
    /\ request.route \in {"testimony", "deposition"}
    /\ request.witnessName # <<>> /\ request.caseName # <<>>
    /\ request.nDocs > 0
    /\ request.kind \notin {"throw", "non2xx"}
    => /\ response.status = 200
       /\ response.n > 0
       /\ response.usedFallback <=> response.fallback

(***************************************************************************)
(* C15: the checks of a file upload run in the order size, document count, *)
(* price and the first that fails gives the reason shown: when the first   *)
(* file dropped is too large, the file-size error is shown and the limit   *)
(* screen is not raised, also when the session is at its document limit.   *)
(***************************************************************************)
SizeCheckedFirst ==
    [][\A files \in Batches :
        /\ files # <<>>
        /\ Head(files) = "big"
        /\ THandleFileUpload(files) \/ DHandleFileUpload(files)
        => /\ error'
           /\ limitReached' = limitReached]_vars

(***************************************************************************)
(* C16: in the testimony tool a document enters its session with status    *)
(* processing; its status changes only from processing, to ready or to     *)
(* error, and never again; no document leaves a session that is kept; and  *)
(* when no upload handler is in flight no document of the session shown is *)
(* still processing.                                                       *)
(***************************************************************************)
DocumentLifecycle ==
    [][tool = "testimony" /\ tool' = "testimony" =>
        /\ \A id \in DOMAIN store \cap DOMAIN store' :
            LET old == store[id].documents
                new == store'[id].documents
            IN  /\ Len(new) >= Len(old)
                /\ \A i \in 1..Len(new) :
                    IF i > Len(old) THEN new[i] = "processing"
                    ELSE \/ new[i] = old[i]
                         \/ old[i] = "processing" /\ new[i] \in {"ready", "error"}
        /\ uploads' = <<>> /\ session'.id \in DOMAIN store'
            => /\ \A i \in 1..Len(session'.documents) :
                    session'.documents[i] # "processing"
               /\ \A i \in 1..Len(store'[session'.id].documents) :
                    store'[session'.id].documents[i] # "processing"]_vars

\* a testimony session holds a document that became ready and a later one
\* that became error, and its upload handlers have finished
DocumentLifecycleWitness ==
    /\ tool = "testimony"
    /\ uploads = <<>>
    /\ session.id \in DOMAIN store
    /\ store[session.id].documents = <<"ready", "error">>
    /\ session.documents = <<"ready", "error">>

(***************************************************************************)
(* C17: each document added to a session, in either tool, increases the    *)
(* persisted documentsUploaded of the current window by exactly one.       *)
(***************************************************************************)
LedgerCountsUploads ==
    [][\A id \in DOMAIN store' :
        LET before == IF id \in DOMAIN store THEN Len(store[id].documents)
                      ELSE 0
            after == Len(store'[id].documents)
        IN  after > before =>
                stats'.documentsUploaded =
                    getSessionStats(stats, now).ret.documentsUploaded
                        + (after - before)]_vars

(***************************************************************************)
(* C18: an error message shown by showError stays until its own timer      *)
(* fires, unless it is dismissed or a new action clears it first: a timer  *)
(* started for an earlier message never clears a later message.            *)
(***************************************************************************)
ErrorShownFullTimeout ==
    [][error /\ ErrorTimeout => timers.older = 0]_vars

ClassifiedByPrecedence ==
    request.route = "detectDocumentType" =>
        LET Precedence ==
                <<"transcript", "prior_testimony", "exhibit", "case_file">>
            lowerName == toLowerCase(request.filename)
            lowerContent == toLowerCase(request.content.text)
            matching ==
                {i \in 1..Len(Precedence) :
                    DocumentTypeRule(Precedence[i], lowerName, lowerContent)}
        IN  /\ matching # {} =>
                \E i \in matching :
                    /\ \A j \in matching : i <= j
                    /\ response.type = Precedence[i]
            /\ response.type = "other" <=> matching = {}

\* a file whose name matches the rules of prior_testimony and exhibit and
\* whose content matches the rule of transcript was classified as transcript
ClassifiedByPrecedenceWitness ==
    /\ request.route = "detectDocumentType"
    /\ request.filename = <<"testimony", "exhibit">>
    /\ request.content = [present |-> TRUE, text |-> <<"Q:">>]
    /\ response.type = "transcript"

(***************************************************************************)
(* C21: detectDocumentType consults the keywords of the file name before   *)
(* those of the content: when the file name matches the rule of a type,    *)
(* the result is the one the file name alone gives, whatever the content.  *)
(***************************************************************************)
FilenameDecides ==
    /\ request.route = "detectDocumentType"
    /\ detectDocumentType(request.filename, Undefined) # "other"
    => response.type = detectDocumentType(request.filename, Undefined)

(***************************************************************************)
(* C22: parseJSONResponse tries strict parse, code-fence stripping, the    *)
(* regular expression and the bracket slice in this order and returns the  *)
(* array of the first that yields one; it returns null only when all four  *)
(* fail; and for an array wrapped in code fences it returns, by strategy   *)
(* 2, the array a strict parse of the unwrapped content gives.             *)
(***************************************************************************)
ParseChainInOrder ==
    request.route = "parseJSONResponse" =>
        LET content == request.content
            tried == <<Strategy1(content), Strategy2(content),
                       Strategy3(content), Strategy4(content)>>
            yielding == {k \in 1..4 : tried[k].ok}
            inner == SubSeq(content, 2, Len(content) - 1)
        IN  /\ response.isNull <=> yielding = {}
            /\ yielding # {} =>
                \E k \in yielding :
                    /\ \A j \in yielding : k <= j
                    /\ response.strategy = k
                    /\ response.value = tried[k].value
            /\ (/\ Len(content) >= 2
                /\ Head(content) = "fence" /\ content[Len(content)] = "fence"
                /\ IsArray(JSONParse(inner)))
                => /\ ~response.isNull
                   /\ response.strategy = 2
                   /\ response.value = JSONParse(inner).value

\* an array of one object wrapped in code fences was recovered by strategy 2
ParseChainInOrderWitness ==
    /\ request.route = "parseJSONResponse"
    /\ request.content = <<"fence", "[", "{", "}", "]", "fence">>
    /\ response.strategy = 2
    /\ response.value = <<"[", "{", "}", "]">>

(***************************************************************************)
(* C23: a reset wins over the work in flight: when an upload, a question   *)
(* generation or a practice submission completes after the session was     *)
(* reset, the wizard stays on the setup step with no session in memory.    *)
(***************************************************************************)
ResetWinsOverInFlight ==
    [][/\ currentStep = "setup" /\ session = NullSession
       /\ \/ TUploadResume \/ DUploadResume
          \/ TGenDone \/ DGenDone
          \/ SubmitDone
       => currentStep' = "setup" /\ session' = NullSession]_vars

(***************************************************************************)
(* C24: after every operation that records a cost, the cost the wizard     *)
(* shows (priceUsed) equals the cost of the persisted ledger               *)
(* (sessionPrice), also when the ledger's window rolled over since the     *)
(* operation before.                                                       *)
(***************************************************************************)
ShownCostMatchesLedger ==
    [][/\ \/ TUploadResume
          \/ TGenDone \/ DGenDone
          \/ SubmitDone
       /\ priceUsed' # priceUsed
       => priceUsed' = stats'.sessionPrice]_vars

(***************************************************************************)
(* C25: in every reachable state of either tool there is a session in      *)
(* memory exactly when the current step is not setup.                      *)
(***************************************************************************)
SessionIffNotSetup ==
    session # NullSession <=> currentStep # "setup"

(***************************************************************************)
(* C26: whenever the testimony wizard is on the practice step,             *)
(* 0 <= currentQuestionIndex < number of questions of the session; and the *)
(* review step is entered only by nextQuestion on the last question.       *)
(***************************************************************************)
PracticeIndexInRange ==
    /\ [](tool = "testimony" /\ currentStep = "practice"
            => /\ 0 <= currentQuestionIndex
               /\ currentQuestionIndex < session.questions.n)
    /\ [][currentStep # "review" /\ currentStep' = "review"
            => /\ nextQuestion
               /\ currentQuestionIndex = session.questions.n - 1]_vars

\* the questions were generated again, with fewer questions, after a practice
\* that had reached the second question, and a new practice is on its first
\* question
PracticeIndexInRangeWitness ==
    /\ tool = "testimony"
    /\ currentStep = "practice"
    /\ session.questions = [gen |-> 2, n |-> 1]
    /\ currentQuestionIndex = 0

(***************************************************************************)
(* C27: the sections autoOrganizeOutline builds partition the questions of *)
(* the session: every question is in exactly one section, once, and that   *)
(* section is titled with its topic (General when it has none); no section *)
(* is empty; the sections of the preferred topics come first, in the       *)
(* preferred order; and the session's question list is left as it was.     *)
(***************************************************************************)
SectionsPartitionQuestions ==
    request.route = "autoOrganizeOutline" /\ request.questions # <<>> =>
        LET questions == request.questions
            sections == response.sections
            Places(i) ==
                {<<s, k>> \in (1..Len(sections)) \X (1..Len(questions)) :
                    /\ k <= Len(sections[s].questions)
                    /\ sections[s].questions[k] = i}
            Rank(title) ==
                IF InTopicOrder(title)
                THEN CHOOSE k \in 1..Len(topicOrder) : topicOrder[k] = title
                ELSE Len(topicOrder) + 1
        IN  /\ response.hasOutline
            /\ \A i \in 1..Len(questions) :
                /\ Cardinality(Places(i)) = 1
                /\ \A place \in Places(i) :
                    sections[place[1]].title = TopicOf(questions[i])
            /\ \A s \in 1..Len(sections) :
                /\ sections[s].questions # <<>>
                /\ Len(sections[s].questions) <= Len(questions)
                /\ \A k \in 1..Len(sections[s].questions) :
                    sections[s].questions[k] \in 1..Len(questions)
            /\ \A s, t \in 1..Len(sections) :
                s < t /\ InTopicOrder(sections[t].title)
                    => Rank(sections[s].title) < Rank(sections[t].title)
            /\ response.questions = questions

\* a list of a question of a topic outside the preferred ones, a question
\* without topic and a question of a preferred topic was organized
SectionsPartitionQuestionsWitness ==
    /\ request.route = "autoOrganizeOutline"
    /\ Len(request.questions) = 3
    /\ request.questions[1].topic = "Venue"
    /\ request.questions[2].topic = ""
    /\ request.questions[3].topic = "Timeline"
    /\ Len(response.sections) = 3
    /\ response.sections[1].title = "Timeline"
    /\ response.sections[2].title = "General"
    /\ response.sections[3].title = "Venue"

(***************************************************************************)
(* C28: in every reachable state of a deposition session that has an       *)
(* outline, the outline is made of the session's current questions.        *)
(***************************************************************************)
OutlineOfCurrentQuestions ==
    tool = "deposition" /\ session.outline # NoQuestions
        => session.outline = session.questions

(***************************************************************************)
(* C29: in the testimony tool, on the documents step of a session that     *)
(* already has questions, the user can get back to the questions step with *)
(* those questions and without a new cost being recorded.                  *)
(***************************************************************************)
CanReturnToQuestions ==
    /\ tool = "testimony"
    /\ currentStep = "documents"
    /\ session.questions.n > 0
    /\ limitReached = "none"
    /\ ~isGeneratingQuestions
    => ENABLED (/\ Next
                /\ currentStep' = "questions"
                /\ session'.questions = session.questions
                /\ stats' = stats)

====
